---- MODULE Spec2Model ----
(***************************************************************************)
(* A model of buildeasy: FileAsClass.__init_subclass__ (the Transformer),  *)
(* the Registry FileAsClass._cache, the module table sys.modules, the      *)
(* pickling helpers, the plugin scanner and the attribute lookup override. *)
(*                                                                         *)
(* Names (attribute names, module names, file names) are sequences of      *)
(* one-character strings, so that startswith, endswith and slicing are     *)
(* computed as the code computes them.                                     *)
(***************************************************************************)
EXTENDS Integers, Sequences, FiniteSets, TLC

VARIABLES
    cache,          \* FileAsClass._cache: module name -> instance id
    sys_modules,    \* sys.modules: module name -> module object or instance
    heap,           \* every object ever constructed from a user class, by id
    cls_attrs,      \* class-level attribute "instance": class -> instance id
    files,          \* the file system: path -> content
    result          \* what the last call did (its outcome, as its caller sees it)

vars == <<cache, sys_modules, heap, cls_attrs, files, result>>

-----------------------------------------------------------------------------
(* Bounds of the model. *)

\* The interpreter's recursion limit (sys.getrecursionlimit()), scaled down.
RecursionLimit == 3

\* The longest directory listing scan_for_plugins is given.
MaxListing == 2

\* filename[:-3] strips three characters.
ExtStripLen == 3

-----------------------------------------------------------------------------
(* Strings as sequences of characters. *)

StartsWith(s, p) == Len(s) >= Len(p) /\ SubSeq(s, 1, Len(p)) = p

EndsWith(s, p) == Len(s) >= Len(p) /\ SubSeq(s, Len(s) - Len(p) + 1, Len(s)) = p

\* s[:-n] of Python, n > 0.
DropLast(s, n) == IF Len(s) > n THEN SubSeq(s, 1, Len(s) - n) ELSE <<>>

N_init == <<"_", "_", "i", "n", "i", "t", "_", "_">>
N_all == <<"_", "_", "a", "l", "l", "_", "_">>
N_instance == <<"i", "n", "s", "t", "a", "n", "c", "e">>
N_name == <<"n", "a", "m", "e">>
N_greet == <<"g", "r", "e", "e", "t">>
N_add_dynamic_method == <<"a", "d", "d", "_", "d", "y", "n">>
N_load_from_cache == <<"l", "o", "a", "d", "_", "c">>
N_save_to_file == <<"s", "a", "v", "e">>
N_load_from_file == <<"l", "o", "a", "d", "_", "f">>
N_scan_for_plugins == <<"s", "c", "a", "n">>

ModuleAttrNames ==
    << <<"_", "_", "n", "a", "m", "e", "_", "_">>,
       <<"_", "_", "p", "a", "c", "k", "a", "g", "e", "_", "_">>,
       <<"_", "_", "l", "o", "a", "d", "e", "r", "_", "_">>,
       <<"_", "_", "s", "p", "e", "c", "_", "_">>,
       <<"_", "_", "f", "i", "l", "e", "_", "_">> >>

-----------------------------------------------------------------------------
(* Python values.  Every value is a record of one shape:                   *)
(*   t  the type, o  the class that defines a member, v  a text,           *)
(*   n  a name,   l  a list of names,               r  an object id.       *)

Value(t, o, v, n, l, r) == [t |-> t, o |-> o, v |-> v, n |-> n, l |-> l, r |-> r]

None == Value("NoneType", "", "", <<>>, <<>>, 0)

StrVal(s) == Value("str", "", s, <<>>, <<>>, 0)

NameStr(n) == Value("str", "", "", n, <<>>, 0)

IntVal(s) == Value("int", "", s, <<>>, <<>>, 0)

ListOf(names) == Value("list", "", "", <<>>, names, 0)

Ref(id) == Value("object", "", "", <<>>, <<>>, id)

\* A member of class `owner`: a function, a staticmethod or classmethod
\* object, or plain data.
Member(kind, owner, name) == Value(kind, owner, "", name, <<>>, 0)

\* The value of an identity field of the original module object.
ModuleField(m, attr) == Value("modulefield", "", "", attr, <<m>>, 0)

\* callable(x): plain functions and staticmethod objects are callable,
\* classmethod objects are not.
Callable(val) == val.t \in {"function", "staticmethod"}

Entry(name, val) == [name |-> name, val |-> val]

Param(name, has_default, default) ==
    [name |-> name, has_default |-> has_default, default |-> default,
     kind |-> "POSITIONAL_OR_KEYWORD"]

VarParam(name, kind) ==
    [name |-> name, has_default |-> FALSE, default |-> None, kind |-> kind]

-----------------------------------------------------------------------------
(* The classes.  FileAsClass as the source defines it, MyModule of         *)
(* my_module.py, and the classes a caller may define on top of them.       *)

\* FileAsClass.__dict__ in definition order.  The long names are shortened:
\* __is__ is __init_subclass__, __gs__ and __ss__ are __getstate__ and
\* __setstate__, __ga__ is __getattribute__.
FileAsClassDict ==
    << Entry(<<"_", "c", "a", "c", "h", "e">>, Member("dict", "FileAsClass", <<"_", "c", "a", "c", "h", "e">>)),
       Entry(<<"_", "_", "i", "s", "_", "_">>, Member("classmethod", "FileAsClass", <<"_", "_", "i", "s", "_", "_">>)),
       Entry(N_add_dynamic_method, Member("function", "FileAsClass", N_add_dynamic_method)),
       Entry(N_load_from_cache, Member("staticmethod", "FileAsClass", N_load_from_cache)),
       Entry(<<"_", "_", "g", "s", "_", "_">>, Member("function", "FileAsClass", <<"_", "_", "g", "s", "_", "_">>)),
       Entry(<<"_", "_", "s", "s", "_", "_">>, Member("function", "FileAsClass", <<"_", "_", "s", "s", "_", "_">>)),
       Entry(N_save_to_file, Member("classmethod", "FileAsClass", N_save_to_file)),
       Entry(N_load_from_file, Member("classmethod", "FileAsClass", N_load_from_file)),
       Entry(N_scan_for_plugins, Member("classmethod", "FileAsClass", N_scan_for_plugins)),
       Entry(<<"_", "_", "g", "a", "_", "_">>, Member("function", "FileAsClass", <<"_", "_", "g", "a", "_", "_">>)) >>

MyModuleDict ==
    << Entry(N_init, Member("function", "MyModule", N_init)),
       Entry(N_greet, Member("function", "MyModule", N_greet)) >>

\* The classes a caller defines: K(FileAsClass, A, B) with two mixins that
\* both define f and g, a class without __init__, and two whose
\* constructors raise.
UserClasses == {"MyModule", "K", "NoInit", "BadT", "BadV"}

ClassDict(c) ==
    CASE c = "FileAsClass" -> FileAsClassDict
      [] c = "MyModule" -> MyModuleDict
      [] c = "A" -> << Entry(<<"f">>, Member("function", "A", <<"f">>)),
                       Entry(<<"g">>, Member("function", "A", <<"g">>)) >>
      [] c = "B" -> << Entry(<<"g">>, Member("function", "B", <<"g">>)),
                       Entry(<<"f">>, Member("function", "B", <<"f">>)),
                       Entry(<<"_", "p">>, Member("function", "B", <<"_", "p">>)) >>
      [] c = "K" -> << Entry(N_init, Member("function", "K", N_init)),
                       Entry(<<"g">>, Member("function", "K", <<"g">>)),
                       Entry(<<"s">>, Member("staticmethod", "K", <<"s">>)),
                       Entry(<<"c">>, Member("classmethod", "K", <<"c">>)),
                       Entry(<<"_", "h">>, Member("function", "K", <<"_", "h">>)) >>
      [] c = "BadT" -> << Entry(N_init, Member("function", "BadT", N_init)) >>
      [] c = "BadV" -> << Entry(N_init, Member("function", "BadV", N_init)) >>
      [] OTHER -> << >>

\* cls.__mro__
Mro(c) ==
    CASE c = "object" -> <<"object">>
      [] c = "FileAsClass" -> <<"FileAsClass", "object">>
      [] c = "K" -> <<"K", "FileAsClass", "A", "B", "object">>
      [] OTHER -> <<c, "FileAsClass", "object">>

\* The parameters of the class's own __init__, self skipped.
OwnInitParams(c) ==
    CASE c = "MyModule" -> << Param(N_name, TRUE, StrVal("buildeasy")) >>
      [] c = "K" -> << Param(<<"a">>, FALSE, None), Param(<<"b">>, TRUE, IntVal("2")) >>
      [] c = "BadT" -> << Param(<<"a">>, FALSE, None) >>
      [] c = "BadV" -> << Param(<<"a">>, FALSE, None), Param(<<"b">>, TRUE, IntVal("2")) >>
      [] OTHER -> << >>

\* What the body of the class's own __init__ raises.
OwnInitRaises(c) ==
    CASE c = "BadT" -> "TypeError"
      [] c = "BadV" -> "ValueError"
      [] OTHER -> "none"

HasName(d, name) == \E i \in 1..Len(d) : d[i].name = name

\* The smallest element of a nonempty set of positions.
First(S) == CHOOSE i \in S : \A j \in S : i <= j

\* The first class of the MRO whose __dict__ has the name ("" when none has).
Definer(mro, name) ==
    IF \A i \in 1..Len(mro) : ~HasName(ClassDict(mro[i]), name) THEN ""
    ELSE mro[First({i \in 1..Len(mro) : HasName(ClassDict(mro[i]), name)})]

\* list(inspect.signature(cls.__init__).parameters.values())[1:] when
\* cls.__init__ is the __init__ of class `owner`; object.__init__, found
\* when no class of the MRO defines one, is (self, /, *args, **kwargs).
ParametersOf(owner) ==
    IF owner = ""
    THEN << VarParam(<<"a", "r", "g", "s">>, "VAR_POSITIONAL"),
            VarParam(<<"k", "w", "a", "r", "g", "s">>, "VAR_KEYWORD") >>
    ELSE OwnInitParams(owner)

Parameters(c) == ParametersOf(Definer(Mro(c), N_init))

-----------------------------------------------------------------------------
(* The Transformer: FileAsClass.__init_subclass__.                         *)

\* The shared state a call works on.
State(c, s, h) == [cache |-> c, sys_modules |-> s, heap |-> h]

\* f_globals.get('__name__') of a namespace that has no __name__.
NoName == <<"None">>

ModuleObject(has_file) == [t |-> "module", id |-> 0, file |-> has_file]

InstanceObject(id) == [t |-> "instance", id |-> id, file |-> FALSE]

\* getattr(module, attr, None) for the five identity fields.
ModuleGetAttr(m, obj, attr) ==
    IF attr = ModuleAttrNames[1] THEN NameStr(m)
    ELSE IF attr = ModuleAttrNames[5] /\ ~obj.file THEN None
    ELSE ModuleField(m, attr)

\* setattr(instance, name, value) on the instance's __dict__.
SetAttr(d, name, val) == (name :> val) @@ d

\* Lines 60-65 with the default never consulted.
ArgForNoDefault(param, init_kwargs) ==
    IF param.name \in DOMAIN init_kwargs THEN init_kwargs[param.name] ELSE None

\* The argument the Transformer passes for one parameter (lines 60-65).
ArgFor(param, init_kwargs) ==
    IF param.name \in DOMAIN init_kwargs THEN init_kwargs[param.name]
    ELSE IF param.has_default THEN param.default
    ELSE None

\* Lines 56-65: init_args
BuildInitArgs(params, init_kwargs) ==
    [name \in {params[i].name : i \in 1..Len(params)} |->
        ArgFor(params[First({i \in 1..Len(params) : params[i].name = name})], init_kwargs)]

\* cls(**init_args) when the constructor is the __init__ of `owner`: the
\* keywords are bound to its parameters and its body runs; the __init__ of
\* my_module.py stores each parameter on self.  object() takes no argument.
ConstructWith(owner, params, init_args) ==
    IF owner = ""
    THEN [exc |-> IF DOMAIN init_args # {} THEN "TypeError" ELSE "none", dict |-> << >>]
    ELSE IF \/ \E n \in DOMAIN init_args : \A i \in 1..Len(params) : params[i].name # n
            \/ \E i \in 1..Len(params) : ~params[i].has_default /\ params[i].name \notin DOMAIN init_args
    THEN [exc |-> "TypeError", dict |-> << >>]
    ELSE IF OwnInitRaises(owner) # "none"
    THEN [exc |-> OwnInitRaises(owner), dict |-> << >>]
    ELSE [exc |-> "none", dict |-> init_args]

Construct(c, init_args) ==
    ConstructWith(Definer(Mro(c), N_init), Parameters(c), init_args)

\* The except clause of lines 68-72: only TypeError is caught and wrapped.
InstantiationError(exc) ==
    IF exc = "TypeError" THEN "TransformationError" ELSE exc

\* Lines 75-78: the names of the public callables of cls.__dict__, in order.
RECURSIVE PublicMethodsFrom(_, _)
PublicMethodsFrom(d, i) ==
    IF i > Len(d) THEN << >>
    ELSE IF Callable(d[i].val) /\ ~StartsWith(d[i].name, <<"_">>)
    THEN <<d[i].name>> \o PublicMethodsFrom(d, i + 1)
    ELSE PublicMethodsFrom(d, i + 1)

PublicMethods(c) == PublicMethodsFrom(ClassDict(c), 1)

\* Lines 81-85: static and class methods of cls.__dict__ set on the instance.
RECURSIVE InjectFrom(_, _, _)
InjectFrom(d, cd, i) ==
    IF i > Len(cd) THEN d
    ELSE IF cd[i].val.t \in {"staticmethod", "classmethod"}
    THEN InjectFrom(SetAttr(d, cd[i].name, cd[i].val), cd, i + 1)
    ELSE InjectFrom(d, cd, i + 1)

\* Lines 92-93: the five identity fields of the original module.
RECURSIVE CopyModuleFields(_, _, _, _)
CopyModuleFields(d, m, obj, i) ==
    IF i > Len(ModuleAttrNames) THEN d
    ELSE CopyModuleFields(SetAttr(d, ModuleAttrNames[i], ModuleGetAttr(m, obj, ModuleAttrNames[i])),
                          m, obj, i + 1)

\* Lines 98-100 with a name that is already set left alone.
RECURSIVE WalkBaseKeepFirst(_, _, _)
WalkBaseKeepFirst(d, bd, i) ==
    IF i > Len(bd) THEN d
    ELSE IF Callable(bd[i].val) /\ ~StartsWith(bd[i].name, <<"_">>) /\ bd[i].name \notin DOMAIN d
    THEN WalkBaseKeepFirst(SetAttr(d, bd[i].name, bd[i].val), bd, i + 1)
    ELSE WalkBaseKeepFirst(d, bd, i + 1)

\* Lines 98-100 for one base class: every public callable of its __dict__ is
\* set on the instance, whatever is there already.
RECURSIVE WalkBase(_, _, _)
WalkBase(d, bd, i) ==
    IF i > Len(bd) THEN d
    ELSE IF Callable(bd[i].val) /\ ~StartsWith(bd[i].name, <<"_">>)
    THEN WalkBase(SetAttr(d, bd[i].name, bd[i].val), bd, i + 1)
    ELSE WalkBase(d, bd, i + 1)

\* Lines 96-100: the walk over cls.__mro__, cls itself skipped.
RECURSIVE MroWalk(_, _, _, _)
MroWalk(d, c, mro, i) ==
    IF i > Len(mro) THEN d
    ELSE IF mro[i] # c
    THEN MroWalk(WalkBase(d, ClassDict(mro[i]), 1), c, mro, i + 1)
    ELSE MroWalk(d, c, mro, i + 1)

\* Lines 74-100: the instance's __dict__ when the Transformer is done with it.
Decorate(d, m, obj, c, id) ==
    MroWalk(
        CopyModuleFields(
            SetAttr(SetAttr(InjectFrom(d, ClassDict(c), 1),
                            N_all, ListOf(PublicMethods(c) \o <<N_instance>>)),
                    N_instance, Ref(id)),
            m, obj, 1),
        c, Mro(c), 1)

\* An object on the heap: its class, the module it was made for, the
\* arguments its constructor got, how it came to be, and its __dict__.
Object(c, m, init_args, origin, d) ==
    [cls |-> c, module |-> m, init_args |-> init_args, origin |-> origin, dict |-> d]

\* What a call of the Transformer leaves: the exception its caller sees,
\* the state, and what it did on the way.
Outcome(exc, st, cached, id, reached, init_args, ctor_exc) ==
    [exc |-> exc, st |-> st, cached |-> cached, id |-> id, reached |-> reached,
     init_args |-> init_args, ctor_exc |-> ctor_exc]

Raise(exc, st) == Outcome(exc, st, FALSE, 0, FALSE, << >>, "none")

\* Lines 50-51 with the lookup always missing.
NeverCached(st, module_name) == FALSE

\* Lines 50-51: the Registry lookup before anything is created.
IsCached(st, module_name) == module_name \in DOMAIN st.cache

\* Lines 103-104: the instance replaces the module and enters the Registry.
Store(st, module_name, obj) ==
    State((module_name :> (Len(st.heap) + 1)) @@ st.cache,
          (module_name :> InstanceObject(Len(st.heap) + 1)) @@ st.sys_modules,
          Append(st.heap, obj))

\* Lines 68-106 with the instance registered before its constructor has
\* run, so that a failed construction leaves it behind.
FinishStoreFirst(st, module_name, cls, init_args, made) ==
    IF made.exc # "none"
    THEN Outcome(InstantiationError(made.exc),
                 Store(st, module_name, Object(cls, module_name, init_args, "transform", << >>)),
                 FALSE, 0, TRUE, init_args, made.exc)
    ELSE Outcome("none",
                 Store(st, module_name,
                       Object(cls, module_name, init_args, "transform",
                              Decorate(made.dict, module_name, st.sys_modules[module_name],
                                       cls, Len(st.heap) + 1))),
                 FALSE, Len(st.heap) + 1, TRUE, init_args, "none")

\* Lines 68-106, `made` being what cls(**init_args) did: a failed
\* construction leaves the function before anything is stored.
Finish(st, module_name, cls, init_args, made) ==
    IF made.exc # "none"
    THEN Outcome(InstantiationError(made.exc), st, FALSE, 0, TRUE, init_args, made.exc)
    ELSE Outcome("none",
                 Store(st, module_name,
                       Object(cls, module_name, init_args, "transform",
                              Decorate(made.dict, module_name, st.sys_modules[module_name],
                                       cls, Len(st.heap) + 1))),
                 FALSE, Len(st.heap) + 1, TRUE, init_args, "none")

\* Lines 67-69: instance = cls(**init_args)
Instantiate(st, module_name, cls, init_args) ==
    Finish(st, module_name, cls, init_args, Construct(cls, init_args))

\* FileAsClass.__init_subclass__(cls, **init_kwargs), called for a class
\* statement executed in the namespace whose __name__ is module_name.
InitSubclass(st, module_name, cls, init_kwargs) ==
    IF DOMAIN init_kwargs # {}
    THEN Raise("TypeError", st)           \* object.__init_subclass__ takes no keywords
    ELSE IF module_name = NoName
    THEN Raise("RuntimeError", st)
    ELSE IF module_name \notin DOMAIN st.sys_modules
    THEN Raise("KeyError", st)
    ELSE IF IsCached(st, module_name)
    THEN Outcome("none", st, TRUE, st.cache[module_name], FALSE, << >>, "none")
    ELSE Instantiate(st, module_name, cls, BuildInitArgs(Parameters(cls), init_kwargs))

-----------------------------------------------------------------------------
(* Attribute lookup: FileAsClass.__getattribute__.                         *)

Found(val, via) == [exc |-> "none", val |-> val, via |-> via]

NotFound(exc) == [exc |-> exc, val |-> None, via |-> ""]

\* The entry of a class __dict__ for a name.
DictEntry(d, name) == d[First({i \in 1..Len(d) : d[i].name = name})].val

\* Whether class c has the attribute itself: in its __dict__, or as the
\* class-level `instance` that load_from_file sets.
ClassHas(c, name, ca) ==
    HasName(ClassDict(c), name) \/ (name = N_instance /\ c \in DOMAIN ca)

\* The first class of the MRO that has the attribute ("" when none has).
DefiningClass(mro, name, ca) ==
    IF \A i \in 1..Len(mro) : ~ClassHas(mro[i], name, ca) THEN ""
    ELSE mro[First({i \in 1..Len(mro) : ClassHas(mro[i], name, ca)})]

ClassAttr(c, name, ca) ==
    IF c = "" THEN NotFound("AttributeError")
    ELSE IF HasName(ClassDict(c), name) THEN Found(DictEntry(ClassDict(c), name), "class")
    ELSE Found(Ref(ca[c]), "class")

\* super().__getattribute__(name): the instance __dict__, then the classes
\* of the MRO (no class here defines a data descriptor).
ObjectGetAttribute(obj, name, ca) ==
    IF name \in DOMAIN obj.dict THEN Found(obj.dict[name], "instance")
    ELSE ClassAttr(DefiningClass(Mro(obj.cls), name, ca), name, ca)

\* Lines 229-237, `has` being what the lookup inside hasattr(self, name)
\* did: hasattr turns AttributeError into False and lets everything else
\* through; the getattr calls after it find what hasattr found.
AfterHasattr(has) ==
    IF has.exc = "AttributeError" THEN NotFound("AttributeError")
    ELSE IF has.exc # "none" THEN has
    ELSE IF has.val.t = "tuple" THEN Found(NameStr(has.val.l[1]), has.via)
    ELSE has

\* Lines 224-237.  hasattr(self, name) calls __getattribute__ again, one
\* frame deeper; a call beyond the recursion limit raises RecursionError.
RECURSIVE GetAttribute(_, _, _, _)
GetAttribute(obj, name, ca, depth) ==
    IF depth > RecursionLimit THEN NotFound("RecursionError")
    ELSE IF ObjectGetAttribute(obj, name, ca).exc = "none"
    THEN ObjectGetAttribute(obj, name, ca)
    ELSE AfterHasattr(GetAttribute(obj, name, ca, depth + 1))

\* self.greet() of my_module.py.
Greet(obj) == "Hello from " \o obj.dict[N_name].v \o "!"

-----------------------------------------------------------------------------
(* add_dynamic_method.                                                     *)

\* Line 119, `target` being what cls.instance gave.
SetOnTarget(h, target, method_name, method) ==
    IF target.exc # "none" THEN [exc |-> target.exc, heap |-> h]
    ELSE IF target.val.t # "object" THEN [exc |-> "AttributeError", heap |-> h]
    ELSE [exc |-> "none",
          heap |-> [h EXCEPT ![target.val.r].dict = SetAttr(@, method_name, method)]]

\* Line 119, with `cls` bound to the object the method is called on.
AddDynamicMethodBody(h, id, ca, method_name, method) ==
    SetOnTarget(h, GetAttribute(h[id], N_instance, ca, 1), method_name, method)

\* singleton.add_dynamic_method(name, method), `m` being what the lookup
\* of add_dynamic_method on the singleton gave: a plain function found in
\* the instance __dict__ is not bound, and is called one argument short.
CallResolved(h, id, ca, m, method_name, method) ==
    IF m.exc # "none" THEN [exc |-> m.exc, heap |-> h]
    ELSE IF m.via = "instance" \/ m.val.t # "function" THEN [exc |-> "TypeError", heap |-> h]
    ELSE AddDynamicMethodBody(h, id, ca, method_name, method)

\* The two ways to call it: singleton.add_dynamic_method(name, method) and
\* FileAsClass.add_dynamic_method(singleton, name, method).
AddDynamicMethod(h, id, ca, style, method_name, method) ==
    IF style = "class" THEN AddDynamicMethodBody(h, id, ca, method_name, method)
    ELSE CallResolved(h, id, ca, GetAttribute(h[id], N_add_dynamic_method, ca, 1),
                      method_name, method)

-----------------------------------------------------------------------------
(* The Serializer.                                                         *)

EmptyFile == [empty |-> TRUE, cls |-> "", module |-> << >>, state |-> << >>]

PickleFile(obj, state) == [empty |-> FALSE, cls |-> obj.cls, module |-> obj.module, state |-> state]

\* __getstate__: a copy of the instance __dict__.
GetState(obj) == obj.dict

\* __setstate__: self.__dict__.update(state)
SetState(d, state) == state @@ d

\* pickle.dump(obj, f): the class is pickled by reference, which needs
\* sys.modules[cls.__module__] to be the module that holds the class; the
\* state is what __getstate__ returns, and staticmethod and classmethod
\* objects cannot be pickled.
Pickle(st, obj) ==
    IF obj.module \notin DOMAIN st.sys_modules \/ st.sys_modules[obj.module].t # "module"
    THEN [exc |-> "PicklingError", content |-> EmptyFile]
    ELSE IF \E n \in DOMAIN GetState(obj) : GetState(obj)[n].t \in {"staticmethod", "classmethod"}
    THEN [exc |-> "TypeError", content |-> EmptyFile]
    ELSE [exc |-> "none", content |-> PickleFile(obj, GetState(obj))]

\* Line 172, `instance` being what cls.instance gave; the file was created
\* or truncated by open(filename, 'wb') before.
Dump(st, fs, filename, instance) ==
    IF instance.exc # "none"
    THEN [exc |-> instance.exc, files |-> (filename :> EmptyFile) @@ fs]
    ELSE [exc |-> Pickle(st, st.heap[instance.val.r]).exc,
          files |-> (filename :> Pickle(st, st.heap[instance.val.r]).content) @@ fs]

\* save_to_file(cls, filename): cls.instance is looked up on the class.
SaveToFile(st, fs, ca, cls, filename) ==
    Dump(st, fs, filename, ClassAttr(DefiningClass(Mro(cls), N_instance, ca), N_instance, ca))

\* load_from_file(cls, filename): cls.instance = pickle.load(f)
LoadFromFile(st, fs, ca, cls, filename) ==
    IF filename \notin DOMAIN fs
    THEN [exc |-> "FileNotFoundError", heap |-> st.heap, cls_attrs |-> ca, id |-> 0]
    ELSE IF fs[filename].empty
    THEN [exc |-> "EOFError", heap |-> st.heap, cls_attrs |-> ca, id |-> 0]
    ELSE [exc |-> "none",
          heap |-> Append(st.heap, Object(fs[filename].cls, fs[filename].module, << >>,
                                          "unpickle", SetState(<< >>, fs[filename].state))),
          cls_attrs |-> (cls :> (Len(st.heap) + 1)) @@ ca,
          id |-> Len(st.heap) + 1]

-----------------------------------------------------------------------------
(* The Plugin Scanner.                                                     *)

Dot_py == <<".", "p", "y">>

Dot_pyw == <<".", "p", "y", "w">>

\* The files a scanned directory may hold.
FileNames ==
    { <<"g">> \o Dot_py, <<"b">> \o Dot_py, <<"t">> \o Dot_py, <<"w">> \o Dot_pyw }

\* What the importable files do when executed: g.py defines
\* class MyModule(FileAsClass) as my_module.py does, b.py raises, t.py
\* defines a class whose constructor raises TypeError.
PluginFiles ==
    (<<"g">> :> [kind |-> "class", cls |-> "MyModule", exc |-> "none"]) @@
    (<<"b">> :> [kind |-> "raise", cls |-> "", exc |-> "ValueError"]) @@
    (<<"t">> :> [kind |-> "class", cls |-> "BadT", exc |-> "none"])

\* The end of an import that executed the file: the entry the import made
\* in sys.modules is removed again when the execution raised.
Executed(st, r) ==
    IF r.exc # "none" THEN [exc |-> r.exc, st |-> st] ELSE [exc |-> "none", st |-> r.st]

\* __import__(module_name): a name already in sys.modules is returned as it
\* is; otherwise the file is found, a module object is entered in
\* sys.modules and the file is executed.
Import(st, module_name) ==
    IF module_name \in DOMAIN st.sys_modules
    THEN [exc |-> "none", st |-> st]
    ELSE IF module_name \notin DOMAIN PluginFiles
    THEN [exc |-> "ModuleNotFoundError", st |-> st]
    ELSE IF PluginFiles[module_name].kind = "raise"
    THEN [exc |-> PluginFiles[module_name].exc, st |-> st]
    ELSE Executed(st,
                  InitSubclass(State(st.cache,
                                     (module_name :> ModuleObject(TRUE)) @@ st.sys_modules,
                                     st.heap),
                               module_name, PluginFiles[module_name].cls, << >>))

\* FileAsClass(module), line 205: FileAsClass defines neither __new__ nor
\* __init__, so object.__new__ refuses any argument.
CallFileAsClass(nargs) == IF nargs > 0 THEN "TypeError" ELSE "none"

\* Lines 203-208, `imported` being what __import__ did: whatever is raised
\* by the import or by FileAsClass(module) is caught and printed.
Loaded(acc, filename, module_name, imported) ==
    [st |-> imported.st,
     log |-> Append(acc.log, [filename |-> filename, module_name |-> module_name,
                              tried |-> TRUE, import_exc |-> imported.exc]),
     stdout |-> IF imported.exc # "none"
                THEN Append(acc.stdout, [module_name |-> module_name, exc |-> imported.exc])
                ELSE IF CallFileAsClass(1) # "none"
                THEN Append(acc.stdout, [module_name |-> module_name, exc |-> CallFileAsClass(1)])
                ELSE acc.stdout]

\* One entry of the listing, lines 201-208.
ScanEntry(acc, filename, extension) ==
    IF ~EndsWith(filename, extension)
    THEN [acc EXCEPT !.log = Append(@, [filename |-> filename, module_name |-> << >>,
                                        tried |-> FALSE, import_exc |-> "none"])]
    ELSE Loaded(acc, filename, DropLast(filename, ExtStripLen),
                Import(acc.st, DropLast(filename, ExtStripLen)))

\* scan_for_plugins(cls, directory, extension), lines 200-208, for a
\* directory whose listing is `listing`.
RECURSIVE ScanFrom(_, _, _, _)
ScanFrom(acc, listing, extension, i) ==
    IF i > Len(listing) THEN acc
    ELSE ScanFrom(ScanEntry(acc, listing[i], extension), listing, extension, i + 1)

ScanForPlugins(st, listing, extension) ==
    ScanFrom([st |-> st, log |-> << >>, stdout |-> << >>], listing, extension, 1)

\* os.listdir: no name twice.
Listings ==
    UNION { {l \in [1..n -> FileNames] : \A i, j \in 1..n : i # j => l[i] # l[j]}
            : n \in 0..MaxListing }

-----------------------------------------------------------------------------
(* The state machine. *)

\* The modules a class statement is executed in directly: m is loaded from
\* the start, g is the plugin g.py and is loaded once a scan has imported it.
DirectModules == {<<"m">>, <<"g">>}

\* The named overrides a class statement may carry: none, or one for the
\* constructor's first parameter.
Overrides(c) ==
    {<< >>} \cup
    (IF Len(OwnInitParams(c)) > 0
     THEN {(OwnInitParams(c)[1].name :> StrVal("custom"))}
     ELSE {})

\* The names and the callable add_dynamic_method is given.
DynamicNames == {N_greet}

DynamicMethod == Member("function", "", <<"d", "y", "n">>)

\* The attribute names read on a singleton.
ReadNames == {N_greet, <<"f">>, <<"g">>, <<"z">>}

Paths == {<<"p">>}

Here == State(cache, sys_modules, heap)

Init ==
    /\ cache = << >>
    /\ sys_modules \in {(<<"m">> :> ModuleObject(has_file)) : has_file \in BOOLEAN}
    /\ heap = << >>
    /\ cls_attrs = << >>
    /\ files = << >>
    /\ result = [op |-> "start"]

\* A class statement `class cls(FileAsClass, **init_kwargs)` is executed.
DefineClass ==
    \E module_name \in DirectModules \cup {NoName}, cls \in UserClasses :
      \E init_kwargs \in Overrides(cls) :
        \E r \in {InitSubclass(Here, module_name, cls, init_kwargs)} :
            /\ cache' = r.st.cache
            /\ sys_modules' = r.st.sys_modules
            /\ heap' = r.st.heap
            /\ result' = [op |-> "init_subclass", module |-> module_name, cls |-> cls,
                          init_kwargs |-> init_kwargs, exc |-> r.exc, cached |-> r.cached,
                          id |-> r.id, reached |-> r.reached, init_args |-> r.init_args,
                          ctor_exc |-> r.ctor_exc,
                          was_loaded |-> module_name \in DOMAIN sys_modules,
                          was_cached |-> module_name \in DOMAIN cache,
                          created |-> Len(r.st.heap) - Len(heap)]
            /\ UNCHANGED <<cls_attrs, files>>

\* An attribute of the singleton of a transformed module is read.
ReadAttribute ==
    \E module_name \in DOMAIN cache, name \in ReadNames :
      \E r \in {GetAttribute(heap[cache[module_name]], name, cls_attrs, 1)} :
          /\ result' = [op |-> "getattr", module |-> module_name, name |-> name,
                        exc |-> r.exc, val |-> r.val,
                        exists |-> ObjectGetAttribute(heap[cache[module_name]], name,
                                                      cls_attrs).exc = "none"]
          /\ UNCHANGED <<cache, sys_modules, heap, cls_attrs, files>>

\* add_dynamic_method is called, on the singleton or through the class.
CallAddDynamicMethod ==
    \E module_name \in DOMAIN cache, style \in {"instance", "class"} :
      \E method_name \in DynamicNames :
        \E r \in {AddDynamicMethod(heap, cache[module_name], cls_attrs, style,
                                   method_name, DynamicMethod)} :
            /\ heap' = r.heap
            /\ result' = [op |-> "add_dynamic_method", module |-> module_name,
                          style |-> style, name |-> method_name, exc |-> r.exc]
            /\ UNCHANGED <<cache, sys_modules, cls_attrs, files>>

\* singleton.save_to_file(path)
CallSaveToFile ==
    \E module_name \in DOMAIN cache, path \in Paths :
      \E r \in {SaveToFile(Here, files, cls_attrs, heap[cache[module_name]].cls, path)} :
          /\ files' = r.files
          /\ result' = [op |-> "save_to_file", module |-> module_name, path |-> path,
                        exc |-> r.exc, state |-> GetState(heap[cache[module_name]])]
          /\ UNCHANGED <<cache, sys_modules, heap, cls_attrs>>

\* singleton.load_from_file(path)
CallLoadFromFile ==
    \E module_name \in DOMAIN cache, path \in Paths :
      \E r \in {LoadFromFile(Here, files, cls_attrs, heap[cache[module_name]].cls, path)} :
          /\ heap' = r.heap
          /\ cls_attrs' = r.cls_attrs
          /\ result' = [op |-> "load_from_file", module |-> module_name, path |-> path,
                        exc |-> r.exc, id |-> r.id, saved |-> path \in DOMAIN files]
          /\ UNCHANGED <<cache, sys_modules, files>>

\* FileAsClass.scan_for_plugins(directory, extension)
CallScanForPlugins ==
    \E listing \in Listings, extension \in {Dot_py, Dot_pyw} :
      \E r \in {ScanForPlugins(Here, listing, extension)} :
          /\ cache' = r.st.cache
          /\ sys_modules' = r.st.sys_modules
          /\ heap' = r.st.heap
          /\ result' = [op |-> "scan_for_plugins", exc |-> "none",
                        extension |-> extension, log |-> r.log, stdout |-> r.stdout]
          /\ UNCHANGED <<cls_attrs, files>>

Next ==
    \/ DefineClass
    \/ ReadAttribute
    \/ CallAddDynamicMethod
    \/ CallSaveToFile
    \/ CallLoadFromFile
    \/ CallScanForPlugins

Spec == Init /\ [][Next]_vars

-----------------------------------------------------------------------------
(* The claims. *)

\* The last call was a transformation that went through: it built a new
\* instance and stored it.
Transformed ==
    result.op = "init_subclass" /\ result.exc = "none" /\ ~result.cached

\* The instances the Transformer has ever created for a module.
CreatedFor(m) ==
    {i \in 1..Len(heap) : heap[i].origin = "transform" /\ heap[i].module = m}

\* C1: once a module has been transformed, a later transformation for it
\* constructs nothing, and the Registry entry and the module-table entry both
\* stay the one instance ever created for that module.
C1_Idempotence ==
    /\ \A m \in DOMAIN cache :
         /\ m \in DOMAIN sys_modules
         /\ sys_modules[m] = InstanceObject(cache[m])
         /\ CreatedFor(m) = {cache[m]}
    /\ \A i \in 1..Len(heap) :
         heap[i].origin = "transform" => heap[i].module \in DOMAIN cache
    /\ (result.op = "init_subclass" /\ result.was_cached) =>
         /\ result.created = 0
         /\ result.exc = "none" => result.id = cache[result.module]

\* A class is defined in a module that already has its singleton, of another class.
C1_Witness ==
    /\ result.op = "init_subclass" /\ result.was_cached /\ result.exc = "none"
    /\ heap[cache[result.module]].cls # result.cls

\* C2: with no overrides the constructor is called with, for every parameter
\* after self, the declared default, or None when there is none; MyModule
\* comes out with name "buildeasy" and greet() "Hello from buildeasy!".
C2_ArgumentFallback ==
    /\ (result.op = "init_subclass" /\ result.reached /\ result.init_kwargs = << >>) =>
         \A i \in 1..Len(Parameters(result.cls)) :
            /\ Parameters(result.cls)[i].name \in DOMAIN result.init_args
            /\ result.init_args[Parameters(result.cls)[i].name] =
                 IF Parameters(result.cls)[i].has_default
                 THEN Parameters(result.cls)[i].default
                 ELSE None
    /\ (Transformed /\ result.cls = "MyModule") =>
         /\ heap[result.id].init_args = (N_name :> StrVal("buildeasy"))
         /\ GetAttribute(heap[result.id], N_name, cls_attrs, 1) =
              Found(StrVal("buildeasy"), "instance")
         /\ GetAttribute(heap[result.id], N_greet, cls_attrs, 1) =
              Found(Member("function", "MyModule", N_greet), "class")
         /\ Greet(heap[result.id]) = "Hello from buildeasy!"

\* K(a, b=2) has just been transformed, and a MyModule singleton exists too.
C2_Witness ==
    /\ Transformed /\ result.cls = "K" /\ result.init_kwargs = << >>
    /\ \E i \in 1..Len(heap) : heap[i].cls = "MyModule" /\ heap[i].origin = "transform"

\* C3: a class defined with a named override for a constructor parameter is
\* transformed, constructed with the override, and stored in the Registry and
\* the module table.
C3_OverridesHonoured ==
    (/\ result.op = "init_subclass"
     /\ result.init_kwargs # << >>
     /\ result.cls \in {"MyModule", "K"}
     /\ result.was_loaded /\ ~result.was_cached) =>
        /\ result.exc = "none"
        /\ result.module \in DOMAIN cache
        /\ sys_modules[result.module] = InstanceObject(cache[result.module])
        /\ \A n \in DOMAIN result.init_kwargs :
             heap[cache[result.module]].init_args[n] = result.init_kwargs[n]

\* C4: whatever the constructor raises, the caller of the Transformer gets
\* a TransformationError.
C4_ConstructionFailureWrapped ==
    (result.op = "init_subclass" /\ result.ctor_exc # "none") =>
        result.exc = "TransformationError"

\* The notices a scan printed for a module name.
Notices(name) == {j \in 1..Len(result.stdout) : result.stdout[j].module_name = name}

\* C5: a scan tries every entry that ends with the extension and never
\* raises; each entry whose import succeeded and defined a qualifying class
\* is in the Registry; a failure notice is printed for exactly the entries
\* whose import raised.
C5_ScannerResilience ==
    result.op = "scan_for_plugins" =>
        /\ result.exc = "none"
        /\ \A i \in 1..Len(result.log) :
             LET e == result.log[i]
             IN  /\ e.tried <=> EndsWith(e.filename, result.extension)
                 /\ (e.tried /\ e.import_exc = "none"
                        /\ e.module_name \in DOMAIN PluginFiles
                        /\ PluginFiles[e.module_name].kind = "class")
                      => e.module_name \in DOMAIN cache
                 /\ e.tried => (Notices(e.module_name) # {} <=> e.import_exc # "none")

\* C6: save_to_file then load_from_file on a singleton complete without
\* error, and the loaded instance has the attributes the singleton had when
\* it was saved.
C6_RoundTrip ==
    /\ result.op = "save_to_file" =>
         /\ result.exc = "none"
         /\ files[result.path] = PickleFile(heap[cache[result.module]], result.state)
    /\ (result.op = "load_from_file" /\ result.saved) =>
         /\ result.exc = "none"
         /\ heap[result.id].dict = files[result.path].state

\* C7: reading an attribute that exists neither on the singleton nor on its
\* classes ends in AttributeError.
C7_MissingAttributeError ==
    (result.op = "getattr" /\ ~result.exists) => result.exc = "AttributeError"

\* C8: a transformation that fails with the configuration error (the
\* RuntimeError of line 46) or a TransformationError leaves the Registry, the
\* module table and every instance as they were.
C8_FailureChangesNothing ==
    [][(result'.op = "init_subclass" /\ result'.exc \in {"RuntimeError", "TransformationError"})
         => (cache' = cache /\ sys_modules' = sys_modules /\ heap' = heap)]_vars

\* A transformation has failed with TransformationError while a singleton
\* made earlier is registered.
C8_Witness ==
    /\ result.op = "init_subclass" /\ result.exc = "TransformationError"
    /\ ~result.was_cached
    /\ DOMAIN cache # {}

\* Whether class c defines the name as a public callable.
DefinesPublic(c, name) ==
    /\ HasName(ClassDict(c), name)
    /\ Callable(DictEntry(ClassDict(c), name))
    /\ ~StartsWith(name, <<"_">>)

\* C9: when two ancestors, A before B in the MRO, both define a public
\* callable of a name, no other ancestor does and the class itself does not
\* define the name, the singleton's attribute of that name is B's definition.
C9_LastWriterWins ==
    Transformed =>
        \A a, b \in 2..Len(Mro(result.cls)) :
          \A k \in 1..Len(ClassDict(Mro(result.cls)[b])) :
            LET mro == Mro(result.cls)
                name == ClassDict(mro[b])[k].name
            IN  (/\ a < b
                 /\ DefinesPublic(mro[a], name)
                 /\ DefinesPublic(mro[b], name)
                 /\ \A o \in 2..Len(mro) : DefinesPublic(mro[o], name) => o \in {a, b}
                 /\ ~HasName(ClassDict(result.cls), name))
                => /\ name \in DOMAIN heap[result.id].dict
                   /\ heap[result.id].dict[name] = DictEntry(ClassDict(mro[b]), name)

\* K(FileAsClass, A, B) has just been transformed: A and B both define f,
\* K does not.
C9_Witness ==
    /\ Transformed /\ result.cls = "K"
    /\ DefinesPublic("A", <<"f">>) /\ DefinesPublic("B", <<"f">>)
    /\ ~HasName(ClassDict("K"), <<"f">>)
    /\ <<"f">> \in DOMAIN heap[result.id].dict

\* C10: after a transformation every name of __all__ that the class
\* defines itself resolves, on the singleton, to the class's own definition.
C10_OwnMethodsNotShadowed ==
    Transformed =>
        \A k \in 1..Len(PublicMethods(result.cls)) :
            GetAttribute(heap[result.id], PublicMethods(result.cls)[k], cls_attrs, 1).val =
                DictEntry(ClassDict(result.cls), PublicMethods(result.cls)[k])

====
